---------------------------- MODULE Spec2Model ----------------------------
(***************************************************************************)
(* A model of the foodgram backend: the storage tables of recipes/models.py *)
(* and users/models.py, and the request handlers of api/views.py and       *)
(* api/serializers.py that write them.  Every request is served by one of  *)
(* a fixed set of workers; a handler is a sequence of storage statements,   *)
(* each of which commits on its own (no handler opens a transaction), so   *)
(* the statements of two requests interleave.                               *)
(***************************************************************************)
EXTENDS Integers, Sequences, FiniteSets, TLC

(* ------------------------------ bounds --------------------------------- *)
NumUsers == 2
NumLoaded == 1
MaxRecipes == 2
NumTags == 2
NumIngredients == 2
NumCodes == 2
MaxAmount == 2
MaxTime == 1
MaxLen == 2
NumNames == 2
NumUnits == 2
MaxCollisions == 2

Procs == {"w1", "w2"}
Anonymous == 0
Users == 1..NumUsers
RecipeIds == 1..MaxRecipes
TagIds == 1..NumTags
IngredientIds == 1..NumIngredients
Codes == 1..NumCodes
Names == 1..NumNames
UnitNames == 1..NumUnits
NoRecipe == [author |-> 0, cooking_time |-> 0, short_code |-> 0]
UserRecipeModels == {"Favorite", "ShoppingCart"}
Methods == {"POST", "DELETE"}

VARIABLES
    tags,               \* rows of Tag (their ids)
    ingredients,        \* rows of Ingredient (their ids)
    ingredientFields,   \* name and measurement_unit.name of each Ingredient
    recipes,            \* rows of Recipe, by id; NoRecipe where there is none
    recipeTags,         \* rows of the Recipe.tags link table: <<recipe, tag>>
    recipeIngredients,  \* rows of RecipeIngredient: <<recipe, ingredient, amount>>
    nextId,             \* the next primary key of Recipe
    userRecipe,         \* Favorite and ShoppingCart: rows per <<user, recipe>>
    subscription,       \* Subscription: rows per <<user, author>>
    pc,                 \* each worker's position in its handler
    req,                \* each worker's request
    local,              \* each worker's handler-local values
    response            \* each worker's response, once its handler returned

vars == <<tags, ingredients, ingredientFields, recipes,
          recipeTags, recipeIngredients, nextId, userRecipe, subscription,
          pc, req, local, response>>
catalogVars == <<tags, ingredients, ingredientFields>>
recipeVars == <<recipes, recipeTags, recipeIngredients, nextId>>
relationVars == <<userRecipe, subscription>>

(* ------------------------------ requests ------------------------------- *)
NoReq == [op |-> "none", user |-> 0, target |-> 0, method |-> "none",
          model |-> "none", tags |-> <<>>, ingredients |-> <<>>,
          cooking_time |-> 0, image |-> FALSE]
Request(op, u, target) ==
    [NoReq EXCEPT !.op = op, !.user = u, !.target = target]
NoLocal == [rid |-> 0, author |-> 0, short_code |-> 0, collected |-> {},
            preTags |-> {}, preLines |-> {}, preTime |-> 0,
            shopping_list |-> <<>>, page |-> <<>>, in_cart |-> FALSE,
            data |-> <<>>, collisions |-> 0, queries |-> 0]

\* is_staff of users/models.py's AbstractUser: the last user is the staff one.
IsStaff(u) == u = NumUsers

\* Recipe.objects.filter(pk=r).exists()
RecipeExists(r) == r \in RecipeIds /\ recipes[r] # NoRecipe

\* request.user.is_authenticated
IsAuthenticated(u) == u \in Users

(* --------------------------- initial state ----------------------------- *)
\* load_data: the catalog and NumLoaded recipes, each with one tag and one
\* ingredient line, written by one management command before any request.
LoadedRecipe(r) ==
    [author |-> ((r - 1) % NumUsers) + 1, cooking_time |-> 1, short_code |-> r]

\* load_ingredients: get_or_create keeps the (name, unit) pairs distinct.
LoadedIngredient(i) ==
    [name |-> ((i - 1) % NumNames) + 1,
     unit |-> (((i - 1) \div NumNames) % NumUnits) + 1]

\* The state with the catalog and the first n recipes loaded.
InitWith(n) ==
    /\ tags = TagIds
    /\ ingredients = IngredientIds
    /\ ingredientFields = [i \in IngredientIds |-> LoadedIngredient(i)]
    /\ recipes = [r \in RecipeIds |->
                    IF r <= n THEN LoadedRecipe(r) ELSE NoRecipe]
    /\ recipeTags = {<<r, 1>> : r \in 1..n}
    /\ recipeIngredients = {<<r, 1, 1>> : r \in 1..n}
    /\ nextId = n + 1
    /\ userRecipe = [m \in UserRecipeModels |->
                        [k \in Users \X RecipeIds |-> 0]]
    /\ subscription = [k \in Users \X Users |-> 0]
    /\ pc = [p \in Procs |-> "idle"]
    /\ req = [p \in Procs |-> NoReq]
    /\ local = [p \in Procs |-> NoLocal]
    /\ response = [p \in Procs |-> "none"]

Init == InitWith(NumLoaded)

\* A handler returns: the worker holds the response until it is sent.
Finish(p, outcome) ==
    /\ pc' = [pc EXCEPT ![p] = "done"]
    /\ response' = [response EXCEPT ![p] = outcome]

Goto(p, label) ==
    /\ pc' = [pc EXCEPT ![p] = label]
    /\ UNCHANGED response

\* The response is sent and the worker takes the next request.
Respond(p) ==
    /\ pc[p] = "done"
    /\ pc' = [pc EXCEPT ![p] = "idle"]
    /\ req' = [req EXCEPT ![p] = NoReq]
    /\ local' = [local EXCEPT ![p] = NoLocal]
    /\ response' = [response EXCEPT ![p] = "none"]
    /\ UNCHANGED <<catalogVars, recipeVars, relationVars>>

(* ------------------- favorite / shopping_cart toggles ------------------ *)
\* The membership check left out: every pair is taken to be absent.
UserRecipeRowExists_Never(m, u, r) == FALSE

\* model.objects.filter(user=user, recipe=recipe).exists()
UserRecipeRowExists(m, u, r) == userRecipe[m][<<u, r>>] > 0

\* The table declared without its UniqueConstraint.
UserRecipeInsertAllowed_NoUnique(m, u, r) == RecipeExists(r)

\* The storage's checks on INSERT into Favorite / ShoppingCart: the foreign
\* key to Recipe and the UniqueConstraint on (user, recipe).
UserRecipeInsertAllowed(m, u, r) ==
    /\ RecipeExists(r)
    /\ userRecipe[m][<<u, r>>] = 0

\* _handle_user_recipe_action up to its first write: the permission
\* (IsAuthenticated), get_object() and the membership check.
UserRecipeBegin(p, u, m, method, r) ==
    /\ pc[p] = "idle"
    /\ req' = [req EXCEPT ![p] = [NoReq EXCEPT !.op = "user_recipe",
                 !.user = u, !.model = m, !.method = method, !.target = r]]
    /\ IF ~IsAuthenticated(u) THEN Finish(p, "Unauthorized")
       ELSE IF ~RecipeExists(r) THEN Finish(p, "NotFound")
       ELSE IF method = "POST"
            THEN IF UserRecipeRowExists(m, u, r)
                 THEN Finish(p, "ConflictExists")
                 ELSE Goto(p, "ur_create")
            ELSE IF ~UserRecipeRowExists(m, u, r)
                 THEN Finish(p, "ConflictNotPresent")
                 ELSE Goto(p, "ur_delete")
    /\ UNCHANGED <<catalogVars, recipeVars, relationVars, local>>

\* model.objects.create(user=user, recipe=recipe): the INSERT raises
\* IntegrityError when the storage refuses the row; the handler catches nothing.
UserRecipeCreate(p) ==
    /\ pc[p] = "ur_create"
    /\ LET m == req[p].model
           k == <<req[p].user, req[p].target>>
       IN IF UserRecipeInsertAllowed(m, k[1], k[2])
          THEN /\ userRecipe' = [userRecipe EXCEPT ![m][k] = @ + 1]
               /\ Finish(p, "Created")
          ELSE /\ UNCHANGED userRecipe
               /\ Finish(p, "InternalError")
    /\ UNCHANGED <<catalogVars, recipeVars, subscription, req, local>>

\* instance.delete(): deletes the rows the filter matches now, none included.
UserRecipeDelete(p) ==
    /\ pc[p] = "ur_delete"
    /\ userRecipe' = [userRecipe EXCEPT
                         ![req[p].model][<<req[p].user, req[p].target>>] = 0]
    /\ Finish(p, "NoContent")
    /\ UNCHANGED <<catalogVars, recipeVars, subscription, req, local>>

(* ------------------------------ subscribe ------------------------------ *)
\* Subscription.objects.filter(user=user, author=author).exists()
SubscriptionRowExists(u, a) == subscription[<<u, a>>] > 0

\* The storage's checks on INSERT into Subscription: unique_subscription and
\* the CheckConstraint no_self_subscription.
SubscriptionInsertAllowed(u, a) ==
    /\ subscription[<<u, a>>] = 0
    /\ u # a

\* The guard left out.
IsSelfSubscription_Never(u, a) == FALSE

\* user == author, the guard subscribe opens with
IsSelfSubscription(u, a) == u = a

\* subscribe up to its first write.
SubscribeBegin(p, u, method, a) ==
    /\ pc[p] = "idle"
    /\ a \in Users
    /\ req' = [req EXCEPT ![p] = [NoReq EXCEPT !.op = "subscribe",
                 !.user = u, !.method = method, !.target = a]]
    /\ IF ~IsAuthenticated(u) THEN Finish(p, "Unauthorized")
       ELSE IF IsSelfSubscription(u, a) THEN Finish(p, "SelfReference")
       ELSE IF method = "POST"
            THEN IF SubscriptionRowExists(u, a)
                 THEN Finish(p, "ConflictExists")
                 ELSE Goto(p, "sub_create")
            ELSE IF ~SubscriptionRowExists(u, a)
                 THEN Finish(p, "ConflictNotPresent")
                 ELSE Goto(p, "sub_delete")
    /\ UNCHANGED <<catalogVars, recipeVars, relationVars, local>>

\* Subscription.objects.create(user=user, author=author)
SubscribeCreate(p) ==
    /\ pc[p] = "sub_create"
    /\ LET k == <<req[p].user, req[p].target>>
       IN IF SubscriptionInsertAllowed(k[1], k[2])
          THEN /\ subscription' = [subscription EXCEPT ![k] = @ + 1]
               /\ Finish(p, "Created")
          ELSE /\ UNCHANGED subscription
               /\ Finish(p, "InternalError")
    /\ UNCHANGED <<catalogVars, recipeVars, userRecipe, req, local>>

\* subscription.delete()
SubscribeDelete(p) ==
    /\ pc[p] = "sub_delete"
    /\ subscription' = [subscription EXCEPT
                           ![<<req[p].user, req[p].target>>] = 0]
    /\ Finish(p, "NoContent")
    /\ UNCHANGED <<catalogVars, recipeVars, userRecipe, req, local>>

(* ----------------------- recipe write serializer ---------------------- *)
ToSet(seq) == {seq[i] : i \in DOMAIN seq}
SeqsUpTo(S, n) == UNION {[1..k -> S] : k \in 0..n}
NoDuplicates(seq) == \A i \in DOMAIN seq, j \in DOMAIN seq : seq[i] = seq[j] => i = j

\* recipe.tags.all() and recipe.ingredient_relations.all(), as sets
TagsOf(r) == {l[2] : l \in {x \in recipeTags : x[1] = r}}
LinesOf(r) == {<<l[2], l[3]>> : l \in {x \in recipeIngredients : x[1] = r}}

\* The tags field (PrimaryKeyRelatedField over Tag.objects.all(), many=True)
\* and validate_tags: every id names a Tag, the list is not empty and holds
\* no id twice.
ValidTags(ts) ==
    /\ \A i \in DOMAIN ts : ts[i] \in tags
    /\ ts # <<>>
    /\ Cardinality(ToSet(ts)) = Len(ts)

\* validate_ingredients without its seen set: repeated ids pass.
ValidIngredients_NoSeen(ls) ==
    /\ \A i \in DOMAIN ls : ls[i][1] \in ingredients /\ ls[i][2] >= 1
    /\ ls # <<>>

\* RecipeIngredientWriteSerializer (id names an Ingredient, amount >= 1) and
\* validate_ingredients: the list is not empty and no id was seen before.
ValidIngredients(ls) ==
    /\ \A i \in DOMAIN ls : ls[i][1] \in ingredients /\ ls[i][2] >= 1
    /\ ls # <<>>
    /\ \A i \in DOMAIN ls : \A j \in 1..(i - 1) : ls[j][1] # ls[i][1]

\* cooking_time: the model field's MinValueValidator(1)
ValidCookingTime(ct) == ct >= 1

\* serializer.is_valid(): image is required by create and optional in the
\* partial update.
IsValid(op, ts, ls, ct, img) ==
    /\ ValidTags(ts)
    /\ ValidIngredients(ls)
    /\ ValidCookingTime(ct)
    /\ (op = "create" => img)

\* The permission without its is_staff alternative: the author alone.
HasObjectPermission_AuthorOnly(u, r) ==
    IsAuthenticated(u) /\ recipes[r].author = u

\* IsAuthorOrAdmin.has_object_permission for an unsafe method.  The view set
\* asks for a class named IsAuthorOrReadOnly; this is the one class the
\* permissions module defines.
HasObjectPermission(u, r) ==
    IsAuthenticated(u) /\ (IsStaff(u) \/ recipes[r].author = u)

\* The storage's checks on the rows tags.set() adds to the link table: the
\* foreign keys to Recipe and to Tag.
TagsSetAllowed(r, ts) ==
    /\ RecipeExists(r)
    /\ ToSet(ts) \subseteq tags

\* recipe.tags.set(tags): the recipe's links become exactly the given tags.
TagsSetRows(r, ts) ==
    {l \in recipeTags : l[1] # r} \cup {<<r, t>> : t \in ToSet(ts)}

\* The storage's checks on the one INSERT of bulk_create: the foreign keys to
\* Recipe and Ingredient and the UniqueConstraint on (recipe, ingredient).
BulkCreateAllowed(r, ls) ==
    /\ RecipeExists(r)
    /\ \A i \in DOMAIN ls :
        /\ ls[i][1] \in ingredients
        /\ \A x \in recipeIngredients : ~(x[1] = r /\ x[2] = ls[i][1])
        /\ \A j \in DOMAIN ls : ls[j][1] = ls[i][1] => j = i

\* create_ingredients stopping one element short of the list's end.
BulkCreateRows_DropLast(r, ls) ==
    {<<r, ls[i][1], ls[i][2]>> : i \in 1..(Len(ls) - 1)} \cup
        {<<r, ls[1][1], ls[1][2]>>}

\* create_ingredients: one RecipeIngredient per element of the list.
BulkCreateRows(r, ls) == {<<r, ls[i][1], ls[i][2]>> : i \in DOMAIN ls}

\* short_code looked up and indexed as if no recipe carried any code.
ShortCodeInUse_Never(c) == FALSE

\* Recipe.objects.filter(short_code=c).exists()
ShortCodeInUse(c) ==
    \E r \in RecipeIds : RecipeExists(r) /\ recipes[r].short_code = c

\* Creates that hold no primary key yet: the model stops at MaxRecipes rows.
PendingCreates == Cardinality({q \in Procs : pc[q] \in {"c_code", "c_insert"}})

(* ------------------------------- create -------------------------------- *)
\* RecipeViewSet.create up to serializer.save(): the permission
\* (IsAuthenticated), then get_serializer(data=request.data), which reads the
\* request body, and serializer.is_valid(raise_exception=True).
CreateBegin(p, u, ts, ls, ct, img) ==
    /\ pc[p] = "idle"
    /\ nextId + PendingCreates <= MaxRecipes
    /\ IF ~IsAuthenticated(u)
       THEN /\ req' = [req EXCEPT ![p] = Request("create", u, 0)]
            /\ Finish(p, "Unauthorized")
       ELSE /\ req' = [req EXCEPT ![p] = [Request("create", u, 0) EXCEPT
                        !.tags = ts, !.ingredients = ls,
                        !.cooking_time = ct, !.image = img]]
            /\ IF ~IsValid("create", ts, ls, ct, img)
               THEN Finish(p, "ValidationError")
               ELSE Goto(p, "c_code")
    /\ UNCHANGED <<catalogVars, recipeVars, relationVars, local>>

\* Recipe.save(), one turn of the `while True` loop: draw a code, keep it and
\* leave the loop unless a recipe carries it, otherwise go round again. The
\* loop has no counter; collisions counts the turns of the running loop that
\* collided, and the model follows at most MaxCollisions of them.
CreateGenCode(p, c) ==
    /\ pc[p] = "c_code"
    /\ IF ShortCodeInUse(c)
       THEN /\ local[p].collisions < MaxCollisions
            /\ local' = [local EXCEPT ![p].collisions = @ + 1]
            /\ UNCHANGED pc
       ELSE /\ local' = [local EXCEPT ![p].short_code = c,
                                      ![p].collisions = 0]
            /\ pc' = [pc EXCEPT ![p] = "c_insert"]
    /\ UNCHANGED <<catalogVars, recipeVars, relationVars, req, response>>

\* Recipe.save(), super().save(): the INSERT, refused by unique=True of
\* short_code when another recipe took the code meanwhile.
CreateInsert(p) ==
    /\ pc[p] = "c_insert"
    /\ IF ShortCodeInUse(local[p].short_code)
       THEN /\ Finish(p, "InternalError")
            /\ UNCHANGED <<recipes, nextId, local>>
       ELSE /\ recipes' = [recipes EXCEPT ![nextId] =
                    [author |-> req[p].user,
                     cooking_time |-> req[p].cooking_time,
                     short_code |-> local[p].short_code]]
            /\ nextId' = nextId + 1
            /\ local' = [local EXCEPT ![p].rid = nextId]
            /\ Goto(p, "c_tags")
    /\ UNCHANGED <<catalogVars, recipeTags, recipeIngredients, relationVars, req>>

\* recipe.tags.set(tags)
CreateTags(p) ==
    /\ pc[p] = "c_tags"
    /\ IF TagsSetAllowed(local[p].rid, req[p].tags)
       THEN /\ recipeTags' = TagsSetRows(local[p].rid, req[p].tags)
            /\ Goto(p, "c_ingredients")
       ELSE /\ UNCHANGED recipeTags
            /\ Finish(p, "InternalError")
    /\ UNCHANGED <<catalogVars, recipes, recipeIngredients, nextId,
                   relationVars, req, local>>

\* self.create_ingredients(recipe, ingredients), then the 201 response
CreateIngredients(p) ==
    /\ pc[p] = "c_ingredients"
    /\ IF BulkCreateAllowed(local[p].rid, req[p].ingredients)
       THEN /\ recipeIngredients' = recipeIngredients \cup
                    BulkCreateRows(local[p].rid, req[p].ingredients)
            /\ Finish(p, "Created")
       ELSE /\ UNCHANGED recipeIngredients
            /\ Finish(p, "InternalError")
    /\ UNCHANGED <<catalogVars, recipes, recipeTags, nextId, relationVars,
                   req, local>>

(* ------------------------------- update -------------------------------- *)
\* RecipeViewSet.update up to serializer.save(): get_object() with its object
\* permission, is_valid(), and update's assignments to the instance in memory
\* (lines 202-206).  The request sends no image: the update is partial and
\* keeps the stored one.  preTags, preLines and preTime record what the
\* recipe held when the handler read it.
UpdateBegin(p, u, r, ts, ls, ct) ==
    /\ pc[p] = "idle"
    /\ IF ~RecipeExists(r)
       THEN /\ req' = [req EXCEPT ![p] = Request("update", u, r)]
            /\ Finish(p, "NotFound")
            /\ UNCHANGED local
       ELSE IF ~HasObjectPermission(u, r)
       THEN /\ req' = [req EXCEPT ![p] = Request("update", u, r)]
            /\ Finish(p, "PermissionDenied")
            /\ UNCHANGED local
       ELSE /\ req' = [req EXCEPT ![p] = [Request("update", u, r) EXCEPT
                        !.tags = ts, !.ingredients = ls, !.cooking_time = ct]]
            /\ IF ~IsValid("update", ts, ls, ct, FALSE)
               THEN Finish(p, "ValidationError") /\ UNCHANGED local
               ELSE /\ local' = [local EXCEPT ![p] =
                            [NoLocal EXCEPT !.rid = r,
                               !.author = recipes[r].author,
                               !.short_code = recipes[r].short_code,
                               !.preTags = TagsOf(r),
                               !.preLines = LinesOf(r),
                               !.preTime = recipes[r].cooking_time]]
                    /\ Goto(p, "u_tags")
    /\ UNCHANGED <<catalogVars, recipeVars, relationVars>>

\* instance.tags.set(tags)
UpdateTags(p) ==
    /\ pc[p] = "u_tags"
    /\ IF TagsSetAllowed(local[p].rid, req[p].tags)
       THEN /\ recipeTags' = TagsSetRows(local[p].rid, req[p].tags)
            /\ Goto(p, "u_collect")
       ELSE /\ UNCHANGED recipeTags
            /\ Finish(p, "InternalError")
    /\ UNCHANGED <<catalogVars, recipes, recipeIngredients, nextId,
                   relationVars, req, local>>

\* instance.ingredients.all(): the Ingredient rows linked to the recipe, which
\* QuerySet.delete() reads first.
IngredientsOfRecipe(r) == {x[2] : x \in {y \in recipeIngredients : y[1] = r}}

UpdateCollect(p) ==
    /\ pc[p] = "u_collect"
    /\ local' = [local EXCEPT ![p].collected = IngredientsOfRecipe(local[p].rid)]
    /\ Goto(p, "u_delete")
    /\ UNCHANGED <<catalogVars, recipeVars, relationVars, req>>

\* on_delete=PROTECT of RecipeIngredient.ingredient: a row that references
\* one of the Ingredient rows to delete.
ProtectedByLines(ings) == \E x \in recipeIngredients : x[2] \in ings

\* instance.ingredients.all().delete(): the delete of the Ingredient rows read
\* before, refused with ProtectedError while a RecipeIngredient references one.
UpdateDeleteIngredients(p) ==
    /\ pc[p] = "u_delete"
    /\ IF local[p].collected = {}
       THEN /\ UNCHANGED ingredients
            /\ Goto(p, "u_ingredients")
       ELSE IF ProtectedByLines(local[p].collected)
            THEN /\ UNCHANGED ingredients
                 /\ Finish(p, "InternalError")
            ELSE /\ ingredients' = ingredients \ local[p].collected
                 /\ Goto(p, "u_ingredients")
    /\ UNCHANGED <<tags, ingredientFields, recipeVars, relationVars, req, local>>

\* self.create_ingredients(instance, ingredients)
UpdateIngredients(p) ==
    /\ pc[p] = "u_ingredients"
    /\ IF BulkCreateAllowed(local[p].rid, req[p].ingredients)
       THEN /\ recipeIngredients' = recipeIngredients \cup
                    BulkCreateRows(local[p].rid, req[p].ingredients)
            /\ Goto(p, "u_save")
       ELSE /\ UNCHANGED recipeIngredients
            /\ Finish(p, "InternalError")
    /\ UNCHANGED <<catalogVars, recipes, recipeTags, nextId, relationVars,
                   req, local>>

\* save() drawing a code on every call, the test of self.short_code left out.
UpdateSave_Regenerates(p) ==
    /\ pc[p] = "u_save"
    /\ LET r == local[p].rid
           row == [author |-> local[p].author,
                   cooking_time |-> req[p].cooking_time,
                   short_code |-> (local[p].short_code % NumCodes) + 1]
       IN IF ShortCodeInUse(row.short_code)
          THEN /\ UNCHANGED recipes
               /\ Finish(p, "InternalError")
          ELSE /\ recipes' = [recipes EXCEPT ![r] = row]
               /\ Finish(p, "Ok")
    /\ UNCHANGED <<catalogVars, recipeTags, recipeIngredients, nextId,
                   relationVars, req, local>>

\* instance.save(): the instance carries a short code, so none is drawn; the
\* UPDATE writes every column, and becomes an INSERT when it matches no row.
UpdateSave(p) ==
    /\ pc[p] = "u_save"
    /\ LET r == local[p].rid
           row == [author |-> local[p].author,
                   cooking_time |-> req[p].cooking_time,
                   short_code |-> local[p].short_code]
       IN IF ~RecipeExists(r) /\ ShortCodeInUse(row.short_code)
          THEN /\ UNCHANGED recipes
               /\ Finish(p, "InternalError")
          ELSE /\ recipes' = [recipes EXCEPT ![r] = row]
               /\ Finish(p, "Ok")
    /\ UNCHANGED <<catalogVars, recipeTags, recipeIngredients, nextId,
                   relationVars, req, local>>

(* ------------------------------- destroy ------------------------------- *)
\* The delete with Favorite and ShoppingCart declared without on_delete=CASCADE
\* handling: their rows are left behind.
Destroy_KeepsRelations(p, u, r) ==
    /\ pc[p] = "idle"
    /\ req' = [req EXCEPT ![p] = [NoReq EXCEPT !.op = "destroy", !.user = u,
                 !.target = r]]
    /\ IF ~RecipeExists(r)
       THEN Finish(p, "NotFound") /\ UNCHANGED recipeVars
       ELSE IF ~HasObjectPermission(u, r)
            THEN Finish(p, "PermissionDenied") /\ UNCHANGED recipeVars
            ELSE /\ recipes' = [recipes EXCEPT ![r] = NoRecipe]
                 /\ recipeTags' = {l \in recipeTags : l[1] # r}
                 /\ recipeIngredients' = {l \in recipeIngredients : l[1] # r}
                 /\ UNCHANGED nextId
                 /\ Finish(p, "NoContent")
    /\ UNCHANGED <<catalogVars, relationVars, local>>

\* ModelViewSet.destroy: get_object() with its object permission, then
\* instance.delete(), which takes the recipe's link rows, its
\* RecipeIngredient rows and its Favorite and ShoppingCart rows with it
\* (on_delete=CASCADE) in one transaction.
Destroy(p, u, r) ==
    /\ pc[p] = "idle"
    /\ req' = [req EXCEPT ![p] = [NoReq EXCEPT !.op = "destroy", !.user = u,
                 !.target = r]]
    /\ IF ~RecipeExists(r)
       THEN Finish(p, "NotFound") /\ UNCHANGED <<recipeVars, userRecipe>>
       ELSE IF ~HasObjectPermission(u, r)
            THEN Finish(p, "PermissionDenied")
                 /\ UNCHANGED <<recipeVars, userRecipe>>
            ELSE /\ recipes' = [recipes EXCEPT ![r] = NoRecipe]
                 /\ recipeTags' = {l \in recipeTags : l[1] # r}
                 /\ recipeIngredients' = {l \in recipeIngredients : l[1] # r}
                 /\ userRecipe' = [m \in UserRecipeModels |->
                        [k \in Users \X RecipeIds |->
                            IF k[2] = r THEN 0 ELSE userRecipe[m][k]]]
                 /\ UNCHANGED nextId
                 /\ Finish(p, "NoContent")
    /\ UNCHANGED <<catalogVars, subscription, local>>

(* ------------------------------ admin site ----------------------------- *)
\* IngredientAdmin's delete view: refused while a RecipeIngredient references
\* the ingredient (on_delete=PROTECT).
AdminDeleteIngredient(i) ==
    /\ i \in ingredients
    /\ ~ProtectedByLines({i})
    /\ ingredients' = ingredients \ {i}
    /\ UNCHANGED <<tags, ingredientFields, recipeVars, relationVars, pc, req,
                   local, response>>

\* TagAdmin's delete view: the tag's link rows go with it.
AdminDeleteTag(t) ==
    /\ t \in tags
    /\ tags' = tags \ {t}
    /\ recipeTags' = {l \in recipeTags : l[2] # t}
    /\ UNCHANGED <<ingredients, ingredientFields, recipes, recipeIngredients, nextId,
                   relationVars, pc, req, local, response>>

\* RecipeIngredientAdmin's delete view: one RecipeIngredient row is deleted.
AdminDeleteRecipeIngredient(x) ==
    /\ x \in recipeIngredients
    /\ recipeIngredients' = recipeIngredients \ {x}
    /\ UNCHANGED <<catalogVars, recipes, recipeTags, nextId, relationVars,
                   pc, req, local, response>>

(* ----------------------------- request inputs -------------------------- *)
Actors == Users \cup {Anonymous}
TagLists == SeqsUpTo(TagIds, MaxLen)
IngredientLines == IngredientIds \X (0..MaxAmount)
IngredientLists == SeqsUpTo(IngredientLines, MaxLen)
CookingTimes == 0..MaxTime

(* --------------------------- the whole system -------------------------- *)
Next ==
    \/ \E p \in Procs :
        \/ \E u \in Actors, m \in UserRecipeModels, method \in Methods,
              r \in RecipeIds : UserRecipeBegin(p, u, m, method, r)
        \/ UserRecipeCreate(p)
        \/ UserRecipeDelete(p)
        \/ \E u \in Actors, method \in Methods, a \in Users :
                SubscribeBegin(p, u, method, a)
        \/ SubscribeCreate(p)
        \/ SubscribeDelete(p)
        \/ /\ pc[p] = "idle"
           /\ \E u \in Actors, ts \in TagLists, ls \in IngredientLists,
                 ct \in CookingTimes, img \in BOOLEAN :
                    CreateBegin(p, u, ts, ls, ct, img)
        \/ \E c \in Codes : CreateGenCode(p, c)
        \/ CreateInsert(p)
        \/ CreateTags(p)
        \/ CreateIngredients(p)
        \/ /\ pc[p] = "idle"
           /\ \E u \in Actors, r \in RecipeIds, ts \in TagLists,
                 ls \in IngredientLists, ct \in CookingTimes :
                    UpdateBegin(p, u, r, ts, ls, ct)
        \/ UpdateTags(p)
        \/ UpdateCollect(p)
        \/ UpdateDeleteIngredients(p)
        \/ UpdateIngredients(p)
        \/ UpdateSave(p)
        \/ \E u \in Actors, r \in RecipeIds : Destroy(p, u, r)
        \/ Respond(p)
    \/ \E i \in IngredientIds : AdminDeleteIngredient(i)
    \/ \E t \in TagIds : AdminDeleteTag(t)
    \/ \E x \in recipeIngredients : AdminDeleteRecipeIngredient(x)

Spec == Init /\ [][Next]_vars

(* ------------------- recipe requests, one at a time -------------------- *)
\* One worker serves every request; the admin site is used between requests.
SerialProcs == {"w1"}
AllIdle == \A q \in Procs : pc[q] = "idle"

NextSerial ==
    \/ \E p \in SerialProcs :
        \/ /\ pc[p] = "idle"
           /\ \E u \in Actors, ts \in TagLists, ls \in IngredientLists,
                 ct \in CookingTimes, img \in BOOLEAN :
                    CreateBegin(p, u, ts, ls, ct, img)
        \/ \E c \in Codes : CreateGenCode(p, c)
        \/ CreateInsert(p)
        \/ CreateTags(p)
        \/ CreateIngredients(p)
        \/ /\ pc[p] = "idle"
           /\ \E u \in Actors, r \in RecipeIds, ts \in TagLists,
                 ls \in IngredientLists, ct \in CookingTimes :
                    UpdateBegin(p, u, r, ts, ls, ct)
        \/ UpdateTags(p)
        \/ UpdateCollect(p)
        \/ UpdateDeleteIngredients(p)
        \/ UpdateIngredients(p)
        \/ UpdateSave(p)
        \/ \E u \in Actors, r \in RecipeIds : Destroy(p, u, r)
        \/ Respond(p)
    \/ AllIdle /\ \E x \in recipeIngredients : AdminDeleteRecipeIngredient(x)

SpecSerial == Init /\ [][NextSerial]_vars

(* ------------------ recipe requests, interleaved ----------------------- *)
\* Valid request bodies only: the races are between the handlers' writes.
RaceTagLists == {<<1>>, <<NumTags, 1>>}
RaceIngredientLists == {<<<<1, 1>>>>, <<<<NumIngredients, MaxAmount>>>>}

\* Creates, while the admin site deletes catalog rows.
NextCreateRace ==
    \/ \E p \in Procs :
        \/ \E u \in Users, ts \in RaceTagLists, ls \in RaceIngredientLists :
                CreateBegin(p, u, ts, ls, 1, TRUE)
        \/ \E c \in Codes : CreateGenCode(p, c)
        \/ CreateInsert(p)
        \/ CreateTags(p)
        \/ CreateIngredients(p)
        \/ Respond(p)
    \/ \E i \in IngredientIds : AdminDeleteIngredient(i)
    \/ \E t \in TagIds : AdminDeleteTag(t)

SpecCreateRace == Init /\ [][NextCreateRace]_vars

\* Updates and deletes of the loaded recipes, while the admin site deletes
\* RecipeIngredient rows.
NextUpdateRace ==
    \/ \E p \in Procs :
        \/ \E u \in Users, r \in RecipeIds, ls \in RaceIngredientLists :
                UpdateBegin(p, u, r, <<NumTags, 1>>, ls, MaxTime)
        \/ UpdateTags(p)
        \/ UpdateCollect(p)
        \/ UpdateDeleteIngredients(p)
        \/ UpdateIngredients(p)
        \/ UpdateSave(p)
        \/ \E u \in Users, r \in RecipeIds : Destroy(p, u, r)
        \/ Respond(p)
    \/ \E x \in recipeIngredients : AdminDeleteRecipeIngredient(x)

SpecUpdateRace == Init /\ [][NextUpdateRace]_vars

(* ------------------------- relation toggles only ----------------------- *)
NextToggle ==
    \E p \in Procs :
        \/ \E u \in Actors, m \in UserRecipeModels, method \in Methods,
              r \in RecipeIds : UserRecipeBegin(p, u, m, method, r)
        \/ UserRecipeCreate(p)
        \/ UserRecipeDelete(p)
        \/ \E u \in Actors, method \in Methods, a \in Users :
                SubscribeBegin(p, u, method, a)
        \/ SubscribeCreate(p)
        \/ SubscribeDelete(p)
        \/ Respond(p)

SpecToggle == Init /\ [][NextToggle]_vars

(* ------------------ claims about the relation toggles ------------------ *)
\* One add request: the same endpoint, user and target.
SameAdd(p, q) ==
    /\ req[p].op \in {"user_recipe", "subscribe"}
    /\ req[p].method = "POST"
    /\ req[q] = req[p]

\* C1: in every reachable state each relation table (Favorite, ShoppingCart,
\* Subscription) holds at most one row per (subject, object) pair.
C1_RelationsAreSets ==
    /\ \A m \in UserRecipeModels : \A k \in Users \X RecipeIds :
            userRecipe[m][k] <= 1
    /\ \A k \in Users \X Users : subscription[k] <= 1

\* Two adds of one absent pair both passed the membership check; one has
\* inserted its row and the other was refused by the storage.
C1_Witness ==
    \E p \in Procs, q \in Procs :
        /\ p # q /\ SameAdd(p, q)
        /\ pc[p] = "done" /\ response[p] = "Created"
        /\ pc[q] = "done" /\ response[q] = "InternalError"

\* C2: of two concurrent adds of the same absent pair, exactly one returns
\* success and the other returns Conflict (already exists), never an
\* internal error.
C2_RaceLoserGetsConflict ==
    \A p \in Procs, q \in Procs :
        (/\ p # q /\ SameAdd(p, q)
         /\ pc[p] = "done" /\ pc[q] = "done"
         /\ response[p] = "Created")
        => response[q] = "ConflictExists"

\* The request worker p takes up in this step, if it takes one up.
Begins(p, ops) ==
    /\ pc[p] = "idle" /\ pc'[p] # "idle"
    /\ req'[p].op \in ops
    /\ IsAuthenticated(req'[p].user)

\* Whether the pair of the request p takes up is in its table now.
PairPresent(p) ==
    IF req'[p].op = "subscribe"
    THEN subscription[<<req'[p].user, req'[p].target>>] > 0
    ELSE userRecipe[req'[p].model][<<req'[p].user, req'[p].target>>] > 0

\* C7: for every relation kind, add of a pair that is present fails with
\* Conflict (already exists) and remove of a pair that is absent fails with
\* Conflict (not present); both leave the relation tables unchanged.
C7_ConflictOnSatisfiedState ==
    [][\A p \in Procs :
        (/\ Begins(p, {"user_recipe", "subscribe"})
         /\ IF req'[p].op = "subscribe"
            THEN req'[p].user # req'[p].target
            ELSE RecipeExists(req'[p].target))
        => /\ (req'[p].method = "POST" /\ PairPresent(p))
                => /\ pc'[p] = "done"
                   /\ response'[p] = "ConflictExists"
                   /\ UNCHANGED relationVars
           /\ (req'[p].method = "DELETE" /\ ~PairPresent(p))
                => /\ pc'[p] = "done"
                   /\ response'[p] = "ConflictNotPresent"
                   /\ UNCHANGED relationVars]_vars

\* An add was answered Created and the same add, made again, Conflict.
C7_Witness ==
    \E p \in Procs, q \in Procs :
        /\ p # q /\ SameAdd(p, q)
        /\ pc[p] = "done" /\ response[p] = "Created"
        /\ pc[q] = "done" /\ response[q] = "ConflictExists"

\* C8: a subscription add or remove whose subject is its target fails with
\* SelfReferenceError before any membership check, whatever rows exist, and
\* writes nothing; no reachable state holds a row whose user is its author.
C8_NoSelfSubscription ==
    /\ [](\A u \in Users : subscription[<<u, u>>] = 0)
    /\ [][\A p \in Procs :
            (/\ Begins(p, {"subscribe"})
             /\ req'[p].user = req'[p].target)
            => /\ pc'[p] = "done"
               /\ response'[p] = "SelfReference"
               /\ UNCHANGED relationVars]_vars

\* A self-subscription was refused while the user holds a subscription.
C8_Witness ==
    \E p \in Procs :
        /\ pc[p] = "done" /\ req[p].op = "subscribe"
        /\ req[p].user = req[p].target
        /\ response[p] = "SelfReference"
        /\ \E a \in Users : subscription[<<req[p].user, a>>] > 0

(* ------------------- claims about the recipe aggregate ----------------- *)
DbVars == <<catalogVars, recipeVars, relationVars>>

\* C3: recipe creation is all-or-nothing: when a step of create fails after
\* validation no recipe row, tag link or RecipeIngredient row of that recipe
\* exists afterwards, and no reader observes a recipe with only part of its
\* tags or ingredients.
C3_CreateAllOrNothing ==
    \A p \in Procs :
        (req[p].op = "create" /\ local[p].rid # 0) =>
            LET r == local[p].rid
            IN /\ (pc[p] = "done" /\ response[p] = "InternalError")
                    => /\ ~RecipeExists(r)
                       /\ TagsOf(r) = {}
                       /\ LinesOf(r) = {}
               /\ (pc[p] \in {"c_tags", "c_ingredients"} /\ RecipeExists(r))
                    => /\ TagsOf(r) = ToSet(req[p].tags)
                       /\ LinesOf(r) = ToSet(req[p].ingredients)

\* C4: after a replace of a recipe its tag set is exactly the supplied tag
\* set and its RecipeIngredient rows are exactly the supplied lines: every
\* line that was present before and is not in the new input is gone.
C4_ReplaceOverwrites ==
    \A p \in Procs :
        (/\ pc[p] = "done" /\ req[p].op = "update"
         /\ response[p] \notin {"NotFound", "PermissionDenied", "ValidationError"})
        => /\ TagsOf(req[p].target) = ToSet(req[p].tags)
           /\ LinesOf(req[p].target) = ToSet(req[p].ingredients)

\* A step of a create, replace or delete request.
RecipeRequestStep(p) ==
    /\ pc'[p] # pc[p]
    /\ pc[p] # "done"
    /\ req'[p].op \in {"create", "update", "destroy"}

\* C5: recipe create, replace and delete never add, remove or change a
\* Catalog Store entity, whether the operation succeeds or fails.
C5_CatalogUntouched ==
    [][\A p \in Procs : RecipeRequestStep(p) => UNCHANGED catalogVars]_vars

\* C6: recipe replace is all-or-nothing: when a step of replace fails, the
\* recipe's scalar fields, tag set and RecipeIngredient rows are what they
\* were before the call.
C6_ReplaceAllOrNothing ==
    \A p \in Procs :
        (/\ pc[p] = "done" /\ req[p].op = "update"
         /\ response[p] = "InternalError")
        => /\ TagsOf(req[p].target) = local[p].preTags
           /\ LinesOf(req[p].target) = local[p].preLines
           /\ recipes[req[p].target].cooking_time = local[p].preTime

\* The inputs C9 names: an empty or repeating tag list, an empty ingredient
\* list or one that repeats an id, an amount below 1, a cooking time below 1.
C9_Invalid(ts, ls, ct) ==
    \/ ts = <<>>
    \/ \E i \in DOMAIN ts, j \in DOMAIN ts : i # j /\ ts[i] = ts[j]
    \/ ls = <<>>
    \/ \E i \in DOMAIN ls, j \in DOMAIN ls : i # j /\ ls[i][1] = ls[j][1]
    \/ \E i \in DOMAIN ls : ls[i][2] < 1
    \/ ct < 1

\* The request worker p takes up in this step is a create or a replace whose
\* body the handler reads: the actor may create, or may change the recipe.
ReadsBody(p) ==
    /\ pc[p] = "idle" /\ pc'[p] # "idle"
    /\ \/ req'[p].op = "create" /\ IsAuthenticated(req'[p].user)
       \/ /\ req'[p].op = "update"
          /\ RecipeExists(req'[p].target)
          /\ HasObjectPermission(req'[p].user, req'[p].target)

\* C9: create_recipe and update_recipe fail with a ValidationError and write
\* nothing whenever the tag list is empty or repeats a tag, the ingredient
\* list is empty or repeats an ingredient id, an amount is below 1 or
\* cooking_time is below 1.
C9_InvalidInputWritesNothing ==
    [][\A p \in Procs :
        (/\ ReadsBody(p)
         /\ C9_Invalid(req'[p].tags, req'[p].ingredients, req'[p].cooking_time))
        => /\ pc'[p] = "done"
           /\ response'[p] = "ValidationError"
           /\ UNCHANGED DbVars]_vars

\* A replace that names one ingredient twice was refused, and the recipe
\* still has its lines.
C9_Witness ==
    \E p \in Procs :
        /\ pc[p] = "done" /\ req[p].op = "update"
        /\ response[p] = "ValidationError"
        /\ Len(req[p].ingredients) = 2
        /\ req[p].ingredients[1][1] = req[p].ingredients[2][1]
        /\ req[p].ingredients[1][2] >= 1 /\ req[p].ingredients[2][2] >= 1
        /\ LinesOf(req[p].target) # {}

\* The inputs C10 names: at least one tag, tags pairwise distinct, at least
\* one line, ingredient ids pairwise distinct, every amount at least 1,
\* cooking_time at least 1, image present.
C10_Valid(ts, ls, ct, img) ==
    /\ Len(ts) >= 1
    /\ \A i \in DOMAIN ts, j \in DOMAIN ts : ts[i] = ts[j] => i = j
    /\ Len(ls) >= 1
    /\ \A i \in DOMAIN ls, j \in DOMAIN ls : ls[i][1] = ls[j][1] => i = j
    /\ \A i \in DOMAIN ls : ls[i][2] >= 1
    /\ ct >= 1
    /\ img

\* C10: for every valid creation input create_recipe succeeds, and the stored
\* recipe's set of (ingredient, amount) lines and its tag set equal the
\* input sets, whatever the order of the input.
C10_ValidCreateStoresInput ==
    [][\A p \in Procs :
        /\ (/\ pc[p] = "idle" /\ req'[p].op = "create"
            /\ IsAuthenticated(req'[p].user)
            /\ C10_Valid(req'[p].tags, req'[p].ingredients,
                         req'[p].cooking_time, req'[p].image))
           => pc'[p] = "c_code"
        /\ (/\ req[p].op = "create" /\ pc[p] # "done" /\ pc'[p] = "done")
           => /\ response'[p] = "Created"
              /\ RecipeExists(local[p].rid)'
              /\ TagsOf(local[p].rid)' = ToSet(req[p].tags)
              /\ LinesOf(local[p].rid)' = ToSet(req[p].ingredients)
              /\ recipes'[local[p].rid].cooking_time = req[p].cooking_time
              /\ recipes'[local[p].rid].author = req[p].user]_vars

\* A create whose tags and lines were given in descending order of id has
\* returned Created.
C10_Witness ==
    \E p \in Procs :
        /\ pc[p] = "done" /\ req[p].op = "create" /\ response[p] = "Created"
        /\ Len(req[p].tags) = 2 /\ req[p].tags[1] > req[p].tags[2]
        /\ Len(req[p].ingredients) = 2
        /\ req[p].ingredients[1][1] > req[p].ingredients[2][1]
        /\ req[p].ingredients[1][2] # req[p].ingredients[2][2]
        /\ LinesOf(local[p].rid) = ToSet(req[p].ingredients)

(* ------------------------ claims about permissions --------------------- *)
\* Worker p takes up a replace or a delete of an existing recipe by an
\* identified actor in this step.
TakesUpWrite(p) ==
    /\ pc[p] = "idle" /\ pc'[p] # "idle"
    /\ req'[p].op \in {"update", "destroy"}
    /\ req'[p].user \in Users
    /\ RecipeExists(req'[p].target)

C11_StaffWitness ==
    \E p \in Procs :
        /\ pc[p] = "done" /\ req[p].op = "destroy"
        /\ response[p] = "NoContent"
        /\ IsStaff(req[p].user)
        /\ ~RecipeExists(req[p].target)

(* ----------------------------- short links ----------------------------- *)
NotFound == 0

\* get_link: the link carries recipe.short_code.
ShortLink(r) == recipes[r].short_code

\* Recipe.objects.get finding more than one row: an uncaught exception.
MultipleObjectsReturned == MaxRecipes + 1

\* A lookup that ignores the code and answers with any stored recipe.
ResolveShortLink_AnyRecipe(c) ==
    IF \E r \in RecipeIds : RecipeExists(r)
    THEN CHOOSE r \in RecipeIds : RecipeExists(r)
    ELSE NotFound

\* ShortLinkRedirectView.get: Recipe.objects.get(short_code=short_code), the
\* id of the recipe found, or 404 when Recipe.DoesNotExist is raised.
ResolveShortLink(c) ==
    LET found == {r \in RecipeIds : RecipeExists(r) /\ recipes[r].short_code = c}
    IN IF found = {} THEN NotFound
       ELSE IF Cardinality(found) = 1 THEN CHOOSE r \in found : TRUE
       ELSE MultipleObjectsReturned

(* --------------- deletes racing toggles and replaces ------------------- *)
NextCascade ==
    \/ AllIdle /\ \E x \in recipeIngredients : AdminDeleteRecipeIngredient(x)
    \/ \E p \in Procs :
        \/ \E u \in Users, m \in UserRecipeModels, method \in Methods,
              r \in RecipeIds : UserRecipeBegin(p, u, m, method, r)
        \/ UserRecipeCreate(p)
        \/ UserRecipeDelete(p)
        \/ \E u \in Users, r \in RecipeIds :
                UpdateBegin(p, u, r, <<NumTags, 1>>,
                            <<<<NumIngredients, MaxAmount>>>>, MaxTime)
        \/ UpdateTags(p)
        \/ UpdateCollect(p)
        \/ UpdateDeleteIngredients(p)
        \/ UpdateIngredients(p)
        \/ UpdateSave(p)
        \/ \E u \in Users, r \in RecipeIds : Destroy(p, u, r)
        \/ Respond(p)

SpecCascade == Init /\ [][NextCascade]_vars

\* The rows that reference recipe r.
RowsOf(r) ==
    [tags |-> {l \in recipeTags : l[1] = r},
     lines |-> {x \in recipeIngredients : x[1] = r},
     relations |-> {<<m, k>> \in UserRecipeModels \X (Users \X RecipeIds) :
                        k[2] = r /\ userRecipe[m][k] > 0}]

NoRows == [tags |-> {}, lines |-> {}, relations |-> {}]

\* C12: in every reachable state no row references a recipe that does not
\* exist, and the step that deletes a recipe removes its RecipeIngredient
\* rows and every Favorite and ShoppingCart row that references it, after
\* which its short code resolves to NotFound.
C12_DeleteCascades ==
    /\ [](\A r \in RecipeIds : ~RecipeExists(r) => RowsOf(r) = NoRows)
    /\ [][\A p \in Procs, r \in RecipeIds, c \in Codes :
            (/\ pc[p] = "idle" /\ req'[p].op = "destroy"
             /\ req'[p].target = r /\ recipes[r].short_code = c
             /\ response'[p] = "NoContent")
            => /\ ~RecipeExists(r)'
               /\ RowsOf(r)' = NoRows
               /\ ResolveShortLink(c)' = NotFound]_vars

\* A remove found its pair present, and before it deleted the row the recipe
\* was deleted and the row with it.
C12_Witness ==
    \E p \in Procs, q \in Procs :
        /\ pc[p] = "done" /\ req[p].op = "destroy"
        /\ response[p] = "NoContent"
        /\ pc[q] = "ur_delete"
        /\ req[q].target = req[p].target
        /\ ~RecipeExists(req[p].target)

(* ---------------------------- shopping list ---------------------------- *)
\* Recipe.objects.filter(shopping_cart__user=user): the recipes with a
\* ShoppingCart row of the user.
CartRecipes(u) ==
    {r \in RecipeIds : RecipeExists(r) /\ userRecipe["ShoppingCart"][<<u, r>>] > 0}

\* The RecipeIngredient rows the two loops of download_shopping_cart visit.
CartRows(u) == {x \in recipeIngredients : x[1] \in CartRecipes(u)}

\* The orders in which the loops can visit them: recipes in Recipe.Meta's
\* ordering (-pub_date, the newest id first); recipe.ingredient_relations.all()
\* has no ordering, so the rows of one recipe come in any order.
RowOrders(u) ==
    {s \in [1..Cardinality(CartRows(u)) -> CartRows(u)] :
        /\ \A i \in DOMAIN s, j \in DOMAIN s : s[i] = s[j] => i = j
        /\ \A i \in DOMAIN s, j \in DOMAIN s : i < j => s[i][1] >= s[j][1]}

\* key = (ingredient.ingredient.name, ingredient.ingredient.measurement_unit.name)
KeyOf(x) == <<ingredientFields[x[2]].name, ingredientFields[x[2]].unit>>

\* The update that stores the amount in place of the sum.
AddAmount_Overwrite(totals, key, amount) ==
    IF \E k \in DOMAIN totals : totals[k][1] = key
    THEN [k \in DOMAIN totals |->
            IF totals[k][1] = key THEN <<key, amount>> ELSE totals[k]]
    ELSE Append(totals, <<key, amount>>)

\* One pass of the inner loop on ingredient_totals, a dict: it keeps its keys
\* in the order of their first insertion.
AddAmount(totals, key, amount) ==
    IF \E k \in DOMAIN totals : totals[k][1] = key
    THEN [k \in DOMAIN totals |->
            IF totals[k][1] = key
            THEN <<key, totals[k][2] + amount>>
            ELSE totals[k]]
    ELSE Append(totals, <<key, amount>>)

RECURSIVE IngredientTotals(_, _)
IngredientTotals(rows, totals) ==
    IF rows = <<>> THEN totals
    ELSE IngredientTotals(Tail(rows),
                          AddAmount(totals, KeyOf(Head(rows)), Head(rows)[3]))

\* shopping_list: one line "<name> (<unit>) - <amount>" per item of the dict,
\* in the dict's order; a line is kept as <<name, unit, amount>>.
ShoppingListLines(totals) ==
    [k \in DOMAIN totals |-> <<totals[k][1][1], totals[k][1][2], totals[k][2]>>]

\* download_shopping_cart, behind the IsAuthenticated permission. It writes
\* nothing.
DownloadShoppingCart(p, u) ==
    /\ pc[p] = "idle"
    /\ req' = [req EXCEPT ![p] = Request("download_shopping_cart", u, 0)]
    /\ IF ~IsAuthenticated(u)
       THEN Finish(p, "Unauthorized") /\ UNCHANGED local
       ELSE /\ \E rows \in RowOrders(u) :
                local' = [local EXCEPT ![p].shopping_list =
                            ShoppingListLines(IngredientTotals(rows, <<>>))]
            /\ Finish(p, "Ok")
    /\ UNCHANGED <<catalogVars, recipeVars, relationVars>>

\* Any catalog, any ingredient lines of MaxRecipes recipes and any carts:
\* what the admin site and the recipe and cart handlers can leave behind.
InitCart ==
    /\ tags = TagIds
    /\ ingredients = IngredientIds
    /\ ingredientFields \in [IngredientIds -> [name : Names, unit : UnitNames]]
    /\ recipes = [r \in RecipeIds |-> LoadedRecipe(r)]
    /\ recipeTags = {<<r, 1>> : r \in RecipeIds}
    /\ \E amounts \in [RecipeIds \X IngredientIds -> 0..MaxAmount] :
            recipeIngredients =
                {<<k[1], k[2], amounts[k]>> :
                    k \in {j \in RecipeIds \X IngredientIds : amounts[j] > 0}}
    /\ nextId = MaxRecipes + 1
    /\ \E cart \in [Users \X RecipeIds -> {0, 1}] :
            userRecipe = [m \in UserRecipeModels |->
                            IF m = "ShoppingCart" THEN cart
                            ELSE [k \in Users \X RecipeIds |-> 0]]
    /\ subscription = [k \in Users \X Users |-> 0]
    /\ pc = [p \in Procs |-> "idle"]
    /\ req = [p \in Procs |-> NoReq]
    /\ local = [p \in Procs |-> NoLocal]
    /\ response = [p \in Procs |-> "none"]

NextCart ==
    \E p \in SerialProcs :
        \/ \E u \in Actors : DownloadShoppingCart(p, u)
        \/ Respond(p)

SpecCart == InitCart /\ [][NextCart]_vars

(* --------------------- claims about the shopping list ------------------ *)
\* Worker p holds the answer to a shopping-list download.
Downloaded(p) ==
    /\ pc[p] = "done" /\ req[p].op = "download_shopping_cart"
    /\ response[p] = "Ok"

\* The RecipeIngredient rows of the recipes in u's ShoppingCart whose
\* ingredient has the given name and unit name.
RowsInCart(u, name, unit) ==
    {x \in recipeIngredients :
        /\ userRecipe["ShoppingCart"][<<u, x[1]>>] > 0
        /\ ingredientFields[x[2]].name = name
        /\ ingredientFields[x[2]].unit = unit}

RECURSIVE SumOfAmounts(_)
SumOfAmounts(rows) ==
    IF rows = {} THEN 0
    ELSE LET x == CHOOSE y \in rows : TRUE
         IN x[3] + SumOfAmounts(rows \ {x})

C14_LinesSortedByName ==
    \A p \in Procs : Downloaded(p) =>
        \A i \in DOMAIN local[p].shopping_list,
           j \in DOMAIN local[p].shopping_list :
            i < j => local[p].shopping_list[i][1] <= local[p].shopping_list[j][1]

(* ------------------- creates racing for short codes -------------------- *)
\* No recipe is stored yet; two creates, replaces and deletes run against
\* each other, and the admin site deletes ingredient lines between requests.
NextShortCode ==
    \/ AllIdle /\ \E x \in recipeIngredients : AdminDeleteRecipeIngredient(x)
    \/ \E p \in Procs :
        \/ \E u \in Users : CreateBegin(p, u, <<1>>, <<<<1, 1>>>>, 1, TRUE)
        \/ \E c \in Codes : CreateGenCode(p, c)
        \/ CreateInsert(p)
        \/ CreateTags(p)
        \/ CreateIngredients(p)
        \/ \E u \in Users, r \in RecipeIds :
                UpdateBegin(p, u, r, <<NumTags>>,
                            <<<<NumIngredients, MaxAmount>>>>, MaxTime)
        \/ UpdateTags(p)
        \/ UpdateCollect(p)
        \/ UpdateDeleteIngredients(p)
        \/ UpdateIngredients(p)
        \/ UpdateSave(p)
        \/ \E u \in Users, r \in RecipeIds : Destroy(p, u, r)
        \/ Respond(p)

SpecShortCode == InitWith(0) /\ [][NextShortCode]_vars


\* C15: in every reachable state, also after creates whose exists()
\* pre-checks interleaved, no two existing recipes carry the same short code,
\* and no step stores a recipe under a code that another existing recipe
\* carries.
C15_CodesDistinct ==
    \A r1, r2 \in RecipeIds :
        (RecipeExists(r1) /\ RecipeExists(r2) /\ r1 # r2)
            => recipes[r1].short_code # recipes[r2].short_code

C15_NotGivenToAnother ==
    \A r \in RecipeIds, c \in Codes :
        (~RecipeExists(r) /\ RecipeExists(r)' /\ recipes'[r].short_code = c)
            => \A r2 \in RecipeIds \ {r} :
                    RecipeExists(r2) => recipes[r2].short_code # c

C15_ShortCodesUnique ==
    /\ []C15_CodesDistinct
    /\ [][C15_NotGivenToAnother]_vars

\* Two creates drew the same free code; one stored its recipe, the other was
\* refused at the INSERT.
C15_Witness ==
    \E p, q \in Procs :
        /\ p # q
        /\ req[p].op = "create" /\ req[q].op = "create"
        /\ pc[p] = "done" /\ response[p] = "Created"
        /\ pc[q] = "done" /\ response[q] = "InternalError"
        /\ local[q].rid = 0
        /\ local[q].short_code = local[p].short_code
        /\ RecipeExists(local[p].rid)
        /\ recipes[local[p].rid].short_code = local[p].short_code

(* ------------------------ short links: the requests -------------------- *)
\* RecipeViewSet.get_link (AllowAny): get_object() answers 404 for an unknown
\* id; otherwise the answer carries the recipe's short code.
GetLink(p, u, r) ==
    /\ pc[p] = "idle"
    /\ req' = [req EXCEPT ![p] = Request("get_link", u, r)]
    /\ IF ~RecipeExists(r)
       THEN Finish(p, "NotFound") /\ UNCHANGED local
       ELSE /\ local' = [local EXCEPT ![p].short_code = ShortLink(r)]
            /\ Finish(p, "Ok")
    /\ UNCHANGED <<catalogVars, recipeVars, relationVars>>

\* ShortLinkRedirectView.get: a redirect to /recipes/<id>/ of the recipe that
\* carries the code, 404 on Recipe.DoesNotExist; any other exception of
\* Recipe.objects.get is not caught.
ShortLinkRedirect(p, c) ==
    /\ pc[p] = "idle"
    /\ req' = [req EXCEPT ![p] = Request("short_link_redirect", Anonymous, c)]
    /\ LET found == ResolveShortLink(c)
       IN IF found = NotFound
          THEN Finish(p, "NotFound") /\ UNCHANGED local
          ELSE IF found = MultipleObjectsReturned
          THEN Finish(p, "InternalError") /\ UNCHANGED local
          ELSE /\ local' = [local EXCEPT ![p].rid = found]
               /\ Finish(p, "Redirect")
    /\ UNCHANGED <<catalogVars, recipeVars, relationVars>>

\* Creates and deletes change which recipe carries which code while links
\* are handed out and followed.
NextShortLink ==
    \E p \in Procs :
        \/ \E u \in Users : CreateBegin(p, u, <<1>>, <<<<1, 1>>>>, 1, TRUE)
        \/ \E c \in Codes : CreateGenCode(p, c)
        \/ CreateInsert(p)
        \/ CreateTags(p)
        \/ CreateIngredients(p)
        \/ \E u \in Users, r \in RecipeIds : Destroy(p, u, r)
        \/ \E u \in Actors, r \in RecipeIds : GetLink(p, u, r)
        \/ \E c \in Codes : ShortLinkRedirect(p, c)
        \/ Respond(p)

SpecShortLink == InitWith(0) /\ [][NextShortLink]_vars

\* C16: for every existing recipe r, resolving the short code that get_link
\* hands out for r gives r, and resolving a code that no existing recipe
\* carries gives NotFound; the redirect request answers accordingly.
C16_Carriers(c) == {r \in RecipeIds : recipes[r] # NoRecipe
                                      /\ recipes[r].short_code = c}

C16_RoundTripState ==
    /\ \A r \in RecipeIds :
            recipes[r] # NoRecipe => ResolveShortLink(ShortLink(r)) = r
    /\ \A c \in Codes :
            C16_Carriers(c) = {} => ResolveShortLink(c) = NotFound

C16_RedirectStep ==
    \A p \in Procs, c \in Codes :
        (pc[p] = "idle" /\ req'[p].op = "short_link_redirect"
         /\ req'[p].target = c)
            => IF C16_Carriers(c) = {}
               THEN response'[p] = "NotFound"
               ELSE /\ response'[p] = "Redirect"
                    /\ local'[p].rid \in C16_Carriers(c)
                    /\ ShortLink(local'[p].rid) = c

C16_RoundTrip ==
    /\ []C16_RoundTripState
    /\ [][C16_RedirectStep]_vars

\* One worker was handed the link of the second recipe while the first one is
\* stored too, and the other worker followed that link to the same recipe.
C16_Witness ==
    \E p, q \in Procs :
        /\ req[p].op = "get_link" /\ response[p] = "Ok"
        /\ req[q].op = "short_link_redirect" /\ response[q] = "Redirect"
        /\ req[q].target = local[p].short_code
        /\ local[q].rid = req[p].target
        /\ req[p].target = 2
        /\ RecipeExists(1) /\ RecipeExists(2)

\* A link followed after its recipe was deleted: 404.
C16_UnusedWitness ==
    \E p, q \in Procs :
        /\ req[p].op = "get_link" /\ response[p] = "Ok"
        /\ ~RecipeExists(req[p].target)
        /\ req[q].op = "short_link_redirect" /\ response[q] = "NotFound"
        /\ req[q].target = local[p].short_code

(* --------------------- the viewer's flags on recipes ------------------- *)
\* Recipe.Meta.ordering = ['-pub_date']: the stored recipes, newest first.
RecipesNewestFirst ==
    LET S == {r \in RecipeIds : RecipeExists(r)}
    IN CHOOSE s \in [1..Cardinality(S) -> S] :
            \A i, j \in 1..Cardinality(S) : i < j => s[i] > s[j]

\* RecipeViewSet.get_queryset: Exists(model.objects.filter(user=user,
\* recipe=OuterRef('pk'))) for an authenticated user, Value(False) otherwise.
Annotation(m, u, r) ==
    IF IsAuthenticated(u) THEN UserRecipeRowExists(m, u, r) ELSE FALSE

\* The rows of the annotated queryset.
AnnotatedQueryset(u) ==
    [i \in DOMAIN RecipesNewestFirst |->
        [id |-> RecipesNewestFirst[i],
         is_favorited |-> Annotation("Favorite", u, RecipesNewestFirst[i]),
         is_in_shopping_cart |->
            Annotation("ShoppingCart", u, RecipesNewestFirst[i])]]

\* The flag true as soon as any user holds the recipe.
GetIsInShoppingCart_AnyUser(u, r) ==
    \E v \in Users : UserRecipeRowExists("ShoppingCart", v, r)

\* RecipeReadSerializer.get_is_in_shopping_cart
GetIsInShoppingCart(u, r) ==
    IF IsAuthenticated(u)
    THEN UserRecipeRowExists("ShoppingCart", u, r)
    ELSE FALSE

\* The flag read from the shopping cart instead of the favorites.
GetIsFavorited_FromCart(u, r) ==
    IF IsAuthenticated(u)
    THEN UserRecipeRowExists("ShoppingCart", u, r)
    ELSE FALSE

\* RecipeReadSerializer.get_is_favorited
GetIsFavorited(u, r) ==
    IF IsAuthenticated(u)
    THEN UserRecipeRowExists("Favorite", u, r)
    ELSE FALSE

\* get_is_in_shopping_cart / get_is_favorited, called for one recipe: the
\* number of filter(user=..., recipe=obj).exists() queries it sends, one for
\* an authenticated user and none otherwise.
ExistsQueries(u) == IF IsAuthenticated(u) THEN 1 ELSE 0

\* RecipeViewSet.list (AllowAny): the annotated queryset is read in one query.
List(p, u) ==
    /\ pc[p] = "idle"
    /\ req' = [req EXCEPT ![p] = Request("list", u, 0)]
    /\ local' = [local EXCEPT ![p].page = AnnotatedQueryset(u)]
    /\ IF AnnotatedQueryset(u) = <<>>
       THEN Finish(p, "Ok")
       ELSE Goto(p, "l_cart")
    /\ UNCHANGED <<catalogVars, recipeVars, relationVars>>

\* RecipeReadSerializer on the next row: the field is_in_shopping_cart, one
\* exists() query.
ListIsInShoppingCart(p) ==
    /\ pc[p] = "l_cart"
    /\ local' = [local EXCEPT
            ![p].in_cart =
                GetIsInShoppingCart(req[p].user, Head(local[p].page).id),
            ![p].queries = @ + ExistsQueries(req[p].user)]
    /\ Goto(p, "l_favorited")
    /\ UNCHANGED <<catalogVars, recipeVars, relationVars, req>>

\* RecipeReadSerializer on the same row: the field is_favorited, one exists()
\* query; the row's data is complete.
ListIsFavorited(p) ==
    /\ pc[p] = "l_favorited"
    /\ LET row == Head(local[p].page)
       IN local' = [local EXCEPT
                ![p].page = Tail(local[p].page),
                ![p].in_cart = FALSE,
                ![p].queries = @ + ExistsQueries(req[p].user),
                ![p].data = Append(local[p].data,
                    [id |-> row.id,
                     is_in_shopping_cart |-> local[p].in_cart,
                     is_favorited |-> GetIsFavorited(req[p].user, row.id)])]
    /\ IF Tail(local[p].page) = <<>>
       THEN Finish(p, "Ok")
       ELSE Goto(p, "l_cart")
    /\ UNCHANGED <<catalogVars, recipeVars, relationVars, req>>

\* Every recipe of the fixture is stored; both workers run favorite and cart
\* toggles of every user, and the first one also serves the listings.
NextAnnotate ==
    \/ \E p \in Procs :
        \/ \E u \in Users, m \in UserRecipeModels, method \in Methods,
              r \in RecipeIds : UserRecipeBegin(p, u, m, method, r)
        \/ UserRecipeCreate(p)
        \/ UserRecipeDelete(p)
        \/ Respond(p)
    \/ \E p \in SerialProcs :
        \/ \E u \in Actors : List(p, u)
        \/ ListIsInShoppingCart(p)
        \/ ListIsFavorited(p)

SpecAnnotate == InitWith(MaxRecipes) /\ [][NextAnnotate]_vars

\* The (user, recipe) pair is stored in the table of model m.
Holds(m, v, r) == userRecipe[m][<<v, r>>] > 0

\* C19: for an anonymous viewer every recipe is reported with
\* is_favorited = false and is_in_shopping_cart = false, in the annotated
\* queryset and in the serialized data, whatever rows the users hold.
C19_AnonymousSeesNoFlags ==
    \A p \in Procs :
        (req[p].op = "list" /\ req[p].user = Anonymous)
            => /\ \A i \in DOMAIN local[p].page :
                    /\ local[p].page[i].is_favorited = FALSE
                    /\ local[p].page[i].is_in_shopping_cart = FALSE
               /\ local[p].in_cart = FALSE
               /\ \A i \in DOMAIN local[p].data :
                    /\ local[p].data[i].is_favorited = FALSE
                    /\ local[p].data[i].is_in_shopping_cart = FALSE

\* An anonymous listing of every recipe is complete while each recipe is in
\* some user's favorites and in some user's cart.
C19_Witness ==
    \E p \in Procs :
        /\ req[p].op = "list" /\ req[p].user = Anonymous
        /\ pc[p] = "done" /\ response[p] = "Ok"
        /\ Len(local[p].data) = MaxRecipes
        /\ \A r \in RecipeIds :
                /\ \E v \in Users : Holds("Favorite", v, r)
                /\ \E v \in Users : Holds("ShoppingCart", v, r)

\* C20: for an identified viewer v and a recipe r, is_favorited is true
\* exactly when (v, r) is in Favorite and is_in_shopping_cart exactly when
\* (v, r) is in ShoppingCart, read from the tables as they are when the flag
\* is computed; no other user's row enters.
C20_AnnotatedAsStored ==
    \A p \in Procs, v \in Users :
        (pc[p] = "idle" /\ req'[p].op = "list" /\ req'[p].user = v)
            => \A i \in 1..MaxRecipes :
                    i \in DOMAIN local'[p].page
                        => LET row == local'[p].page[i]
                           IN /\ row.is_favorited
                                    = Holds("Favorite", v, row.id)
                              /\ row.is_in_shopping_cart
                                    = Holds("ShoppingCart", v, row.id)

C20_CartFlagAsStored ==
    \A p \in Procs, v \in Users, r \in RecipeIds :
        (pc[p] = "l_cart" /\ pc'[p] # "l_cart" /\ req[p].user = v
         /\ Head(local[p].page).id = r)
            => local'[p].in_cart = Holds("ShoppingCart", v, r)

C20_FavoritedFlagAsStored ==
    \A p \in Procs, v \in Users, r \in RecipeIds :
        (pc[p] = "l_favorited" /\ pc'[p] # "l_favorited" /\ req[p].user = v
         /\ Head(local[p].page).id = r)
            => /\ Len(local'[p].data) = Len(local[p].data) + 1
               /\ LET item == local'[p].data[Len(local'[p].data)]
                  IN /\ item.id = r
                     /\ item.is_favorited = Holds("Favorite", v, r)
                     /\ item.is_in_shopping_cart = local[p].in_cart

C20_FlagsAsStored ==
    [][/\ C20_AnnotatedAsStored
       /\ C20_CartFlagAsStored
       /\ C20_FavoritedFlagAsStored]_vars

\* User 1 is shown recipe 1 as a favorite and not in the cart, while user 2
\* holds it in the cart and not as a favorite.
C20_Witness ==
    \E p \in Procs :
        /\ req[p].op = "list" /\ req[p].user = 1
        /\ pc[p] = "done" /\ response[p] = "Ok"
        /\ \E i \in DOMAIN local[p].data :
                /\ local[p].data[i].id = 1
                /\ local[p].data[i].is_favorited
                /\ ~local[p].data[i].is_in_shopping_cart
        /\ Holds("Favorite", 1, 1) /\ ~Holds("ShoppingCart", 1, 1)
        /\ ~Holds("Favorite", 2, 1) /\ Holds("ShoppingCart", 2, 1)

(* ----------------------- a recipe's whole lifetime --------------------- *)
\* User 1 creates, replaces, favorites, lists and deletes recipes on two
\* workers; the admin site deletes ingredient lines between requests.
NextLifetime ==
    \/ AllIdle /\ \E x \in recipeIngredients : AdminDeleteRecipeIngredient(x)
    \/ \E p \in Procs :
        \/ CreateBegin(p, 1, <<1>>, <<<<1, 1>>>>, 1, TRUE)
        \/ \E c \in Codes : CreateGenCode(p, c)
        \/ CreateInsert(p)
        \/ CreateTags(p)
        \/ CreateIngredients(p)
        \/ \E r \in RecipeIds :
                UpdateBegin(p, 1, r, <<NumTags>>,
                            <<<<NumIngredients, MaxAmount>>>>, MaxTime)
        \/ UpdateTags(p)
        \/ UpdateCollect(p)
        \/ UpdateDeleteIngredients(p)
        \/ UpdateIngredients(p)
        \/ UpdateSave(p)
        \/ \E method \in Methods, r \in RecipeIds :
                UserRecipeBegin(p, 1, "Favorite", method, r)
        \/ UserRecipeCreate(p)
        \/ UserRecipeDelete(p)
        \/ \E r \in RecipeIds : Destroy(p, 1, r)
        \/ Respond(p)
    \/ \E p \in SerialProcs :
        \/ List(p, 1)
        \/ ListIsInShoppingCart(p)
        \/ ListIsFavorited(p)

SpecLifetime == InitWith(0) /\ [][NextLifetime]_vars

\* C17: a recipe gets its short code in the step that stores it, and from
\* then until it is deleted no step changes the code: not a save, a replace,
\* a favorite toggle or a listing with its annotations.
C17_AssignedAtCreation ==
    \A r \in RecipeIds :
        (recipes[r] = NoRecipe /\ recipes'[r] # NoRecipe)
            => recipes'[r].short_code \in Codes

C17_KeptWhileStored ==
    \A r \in RecipeIds :
        (recipes[r] # NoRecipe /\ recipes'[r] # NoRecipe)
            => recipes'[r].short_code = recipes[r].short_code

C17_ShortCodeImmutable ==
    [][C17_AssignedAtCreation /\ C17_KeptWhileStored]_vars

\* A replace of a favorited recipe has run its save(): the recipe has the new
\* cooking time and the code that the request loaded.
C17_Witness ==
    \E p \in Procs :
        /\ req[p].op = "update" /\ pc[p] = "done" /\ response[p] = "Ok"
        /\ recipes[req[p].target] # NoRecipe
        /\ recipes[req[p].target].cooking_time = req[p].cooking_time
        /\ recipes[req[p].target].short_code = local[p].short_code
        /\ local[p].short_code \in Codes
        /\ userRecipe["Favorite"][<<1, req[p].target>>] > 0

\* C18: short-code assignment terminates: the retries are bounded by a cap,
\* and a create whose draws all collide ends in an error. With the model's
\* MaxCollisions standing for the cap: a create that has drawn MaxCollisions
\* colliding codes is finished with an error, it is not still in the loop.
C18_RetriesCapped ==
    \A p \in Procs :
        local[p].collisions >= MaxCollisions
            => pc[p] = "done" /\ response[p] = "InternalError"

\* C21: a listing of n recipes for an identified viewer sends at most one
\* membership query per flag, two in total, whatever n is, and a listing for
\* an anonymous viewer sends none.
C21_QueriesPerListing ==
    \A p \in Procs :
        req[p].op = "list"
            => IF req[p].user = Anonymous
               THEN local[p].queries = 0
               ELSE local[p].queries <= Cardinality(UserRecipeModels)

\* The part that holds: an anonymous listing sends no membership query.
C21_AnonymousSendsNone ==
    \A p \in Procs :
        (req[p].op = "list" /\ req[p].user = Anonymous)
            => local[p].queries = 0

\* What the code does: two queries for every recipe serialized.
C21_TwoPerRecipe ==
    \A p \in Procs :
        (req[p].op = "list" /\ req[p].user \in Users /\ pc[p] = "done")
            => local[p].queries
                    = Cardinality(UserRecipeModels) * Len(local[p].data)

\* Two finished replace requests for the same recipe that passed validation
\* with different ingredient sets.
C22_BothReplaced(p, q, r) ==
    /\ p # q
    /\ req[p].op = "update" /\ req[q].op = "update"
    /\ req[p].target = r /\ req[q].target = r
    /\ local[p].rid = r /\ local[q].rid = r
    /\ ToSet(req[p].ingredients) # ToSet(req[q].ingredients)
    /\ pc[p] = "done" /\ pc[q] = "done"

\* C22: when two replace requests for the same recipe with different
\* ingredient sets A and B ran concurrently, both finished without a storage
\* error and the recipe's RecipeIngredient rows are exactly A or exactly B.
C22_ConcurrentReplaces ==
    \A p, q \in Procs, r \in RecipeIds :
        C22_BothReplaced(p, q, r)
            => /\ response[p] = "Ok" /\ response[q] = "Ok"
               /\ LinesOf(r) \in {ToSet(req[p].ingredients),
                                  ToSet(req[q].ingredients)}

\* The second half alone, for the requests that did finish without an error.
C22_NoMixture ==
    \A p, q \in Procs, r \in RecipeIds :
        (C22_BothReplaced(p, q, r)
         /\ response[p] = "Ok" /\ response[q] = "Ok" /\ RecipeExists(r))
            => LinesOf(r) \in {ToSet(req[p].ingredients),
                               ToSet(req[q].ingredients)}

(* ------------- create, replace and delete calls, one by one ------------ *)
\* One worker serves create, replace and delete requests of every actor with
\* every request body, valid or not; nothing else touches the tables. Every
\* recipe then has a line when a replace reaches its delete, which refuses, so
\* the replace's bulk_create and save() are never reached and are left out.
NextCalls ==
    \E p \in SerialProcs :
        \/ /\ pc[p] = "idle"
           /\ \E u \in Actors, ts \in TagLists, ls \in IngredientLists,
                 ct \in CookingTimes, img \in BOOLEAN :
                    CreateBegin(p, u, ts, ls, ct, img)
        \/ \E c \in Codes : CreateGenCode(p, c)
        \/ CreateInsert(p)
        \/ CreateTags(p)
        \/ CreateIngredients(p)
        \/ /\ pc[p] = "idle"
           /\ \E u \in Actors, r \in RecipeIds, ts \in TagLists,
                 ls \in IngredientLists, ct \in CookingTimes :
                    UpdateBegin(p, u, r, ts, ls, ct)
        \/ UpdateTags(p)
        \/ UpdateCollect(p)
        \/ UpdateDeleteIngredients(p)
        \/ \E u \in Actors, r \in RecipeIds : Destroy(p, u, r)
        \/ Respond(p)

SpecCalls == Init /\ [][NextCalls]_vars

\* The same calls with valid bodies, overlapping on two workers.
NextCallsRace ==
    \E p \in Procs :
        \/ \E u \in Users, ts \in RaceTagLists, ls \in RaceIngredientLists :
                CreateBegin(p, u, ts, ls, 1, TRUE)
        \/ \E c \in Codes : CreateGenCode(p, c)
        \/ CreateInsert(p)
        \/ CreateTags(p)
        \/ CreateIngredients(p)
        \/ \E u \in Users, r \in RecipeIds, ls \in RaceIngredientLists :
                UpdateBegin(p, u, r, <<NumTags, 1>>, ls, MaxTime)
        \/ UpdateTags(p)
        \/ UpdateCollect(p)
        \/ UpdateDeleteIngredients(p)
        \/ UpdateIngredients(p)
        \/ UpdateSave(p)
        \/ \E u \in Users, r \in RecipeIds : Destroy(p, u, r)
        \/ Respond(p)

SpecCallsRace == Init /\ [][NextCallsRace]_vars

\* No call is under way: every worker is between two requests or has its
\* answer ready.
C23_BetweenCalls == \A p \in Procs : pc[p] \in {"idle", "done"}

\* C23: after any sequence of create, replace and delete calls, successful
\* or failed, every existing recipe has at least one tag and at least one
\* RecipeIngredient row; and in every state every amount is at least 1,
\* cooking_time is at least 1, and no recipe has two rows for one ingredient.
C23_Composition ==
    \A r \in RecipeIds :
        recipes[r] # NoRecipe
            => /\ C23_BetweenCalls
                    => /\ \E l \in recipeTags : l[1] = r
                       /\ \E x \in recipeIngredients : x[1] = r
               /\ \A x \in recipeIngredients : x[1] = r => x[3] >= 1
               /\ recipes[r].cooking_time >= 1
               /\ \A x, y \in recipeIngredients :
                    (x[1] = r /\ y[1] = r /\ x[2] = y[2]) => x = y

=============================================================================
